---- MODULE Spec2Model ----
(***************************************************************************)
(* A model of the MyPermobil API client (mypermobil/mypermobil.py and      *)
(* mypermobil/const.py): the item/endpoint tables, the session object,     *)
(* the `cacheable` single-flight decorator and the fetch operations it     *)
(* wraps.  Every `await` of the decorator is a suspension point, so each   *)
(* stretch of code between two awaits is one action.                       *)
(*                                                                         *)
(* Strings that the code inspects (email, region, code, expiration date)   *)
(* are sequences of one-character strings.  None is the value NONE.        *)
(***************************************************************************)
EXTENDS Integers, Sequences, FiniteSets, TLC

\* ------------------------------------------------------------------ bounds
\* Number of tasks (each makes one call) in the gate specifications.
NumCallers == 3
\* Number of tasks that call in Spec, which has every operation and the clock.
SpecCallers == 2
\* Number of clock advances in one behaviour.
MaxTicks == 1

\* --------------------------------------------------------- const.py tables
\* None where a str of characters is expected, and where a plain name is.
NONE == <<"<None>">>
PyNone == "<None>"

ENDPOINT_BATTERY_INFO == "/api/v1/products/battery-info"
ENDPOINT_DAILY_USAGE == "/api/v1/products/voiceaccess/dailyusage"
ENDPOINT_VA_CHARGE_TIME == "/api/v1/products/voiceaccess/chargetime"
ENDPOINT_VA_CHAIR_STATUS == "/api/v1/products/voiceaccess/chairstatus"
ENDPOINT_VA_USAGE_RECORDS == "/api/v1/products/voiceaccess/usagerecords"
ENDPOINT_PRODUCTS == "/api/v1/products"
GET_REGIONS == "https://cwcprod.permobil.com/api/v1/regions?includeFlags=on"

\* An element of an endpoint's item list: a field name (a str), or the nested
\* dict {PRODUCTS_ID: [...]} of the products endpoint, which is not a str.
StrItem(name) == [isstr |-> TRUE, name |-> name]
DictItem(name) == [isstr |-> FALSE, name |-> name]

\* The field names nested under PRODUCTS_ID inside the products dict.
PRODUCTS_FIELDS ==
    << "WCSerial", "BrandId", "Model", "Manufactured", "ICSHardware", "Status",
       "previousStatus", "customerCode", "hideGPSPosition", "Contract",
       "LinNodes", "lastUpdated", "mostRecent", "battery", "serviceAgreements",
       "customizations", "functions", "deleted", "__v", "createdAt",
       "updatedAt", "FirstUse", "timezone", "PCSerial", "telecom", "unitType",
       "permocellInfo", "publicKey", "publicKeyDate", "correlationIdCounter",
       "certificates" >>

\* ITEM_LOOKUP in declaration order: <<endpoint, item list>> pairs.
ITEM_LOOKUP ==
    << << ENDPOINT_BATTERY_INFO,
          << StrItem("stateOfHealth"), StrItem("stateOfCharge"),
             StrItem("charging"), StrItem("chargeTimeLeft"),
             StrItem("distanceLeft"), StrItem("localDistanceLeft"),
             StrItem("indoorDriveTime"), StrItem("maxIndoorDriveTime"),
             StrItem("distanceUnit"), StrItem("maxAmpereHours"),
             StrItem("ampereHoursLeft"), StrItem("maxDistanceLeft"),
             StrItem("localTimestamp"), StrItem("localTimestamp") >> >>,
       << ENDPOINT_DAILY_USAGE,
          << StrItem("distance"), StrItem("distanceUnit"),
             StrItem("adjustments") >> >>,
       << ENDPOINT_VA_CHARGE_TIME,
          << StrItem("unknown"), StrItem("chargingNow"),
             StrItem("chargeTimeLeft"), StrItem("minutes"),
             StrItem("hours") >> >>,
       << ENDPOINT_VA_CHAIR_STATUS,
          << StrItem("status") >> >>,
       << ENDPOINT_VA_USAGE_RECORDS,
          << StrItem("distanceRecord"), StrItem("distanceUnit"),
             StrItem("distanceRecordDate"), StrItem("seatingRecord"),
             StrItem("seatingRecordDate") >> >>,
       << ENDPOINT_PRODUCTS,
          << DictItem("_id") >> >> >>

\* The keys of ITEM_LOOKUP (the declared endpoints).
Endpoints == { ITEM_LOOKUP[i][1] : i \in 1..Len(ITEM_LOOKUP) }

\* Position of an endpoint in the declaration order.
DeclIndex(endpoint) == CHOOSE i \in 1..Len(ITEM_LOOKUP) : ITEM_LOOKUP[i][1] = endpoint

\* ITEM_LOOKUP[endpoint] for a declared endpoint.
ItemsOf(endpoint) == ITEM_LOOKUP[DeclIndex(endpoint)][2]

\* `item in ITEM_LOOKUP[endpoint]` for a str item: a str never equals the dict.
ItemIn(item, endpoint) ==
    \E j \in 1..Len(ItemsOf(endpoint)) :
        ItemsOf(endpoint)[j].isstr /\ ItemsOf(endpoint)[j].name = item

Reverse(s) == [i \in 1..Len(s) |-> s[Len(s) + 1 - i]]

\* list(ITEM_LOOKUP.items()) without the reversal.
LookupOrderForward == ITEM_LOOKUP

\* list(ITEM_LOOKUP.items())[::-1]: the order the comprehension iterates in.
LookupOrder == Reverse(ITEM_LOOKUP)

\* The (item, endpoint) pairs the comprehension yields, in order, with the
\* isinstance(item, str) filter applied.
RECURSIVE ComprehensionPairs(_, _, _)
ComprehensionPairs(order, i, j) ==
    IF i > Len(order) THEN << >>
    ELSE IF j > Len(order[i][2]) THEN ComprehensionPairs(order, i + 1, 1)
    ELSE IF order[i][2][j].isstr
         THEN << << order[i][2][j].name, order[i][1] >> >>
                  \o ComprehensionPairs(order, i, j + 1)
         ELSE ComprehensionPairs(order, i, j + 1)

\* A dict built from pairs: a later pair with the same key overwrites.
RECURSIVE DictFromPairs(_, _, _)
DictFromPairs(pairs, n, acc) ==
    IF n > Len(pairs) THEN acc
    ELSE DictFromPairs(pairs, n + 1,
            [k \in (DOMAIN acc) \cup {pairs[n][1]} |->
                IF k = pairs[n][1] THEN pairs[n][2] ELSE acc[k]])

EmptyDict == [k \in {} |-> ""]

\* ENDPOINT_LOOKUP: item name -> endpoint.
ENDPOINT_LOOKUP == DictFromPairs(ComprehensionPairs(LookupOrder, 1, 1), 1, EmptyDict)

\* ENDPOINT_LOOKUP.get(item, ENDPOINT_PRODUCTS)
EndpointLookupGetDefault(item) ==
    IF item \in DOMAIN ENDPOINT_LOOKUP THEN ENDPOINT_LOOKUP[item] ELSE ENDPOINT_PRODUCTS

\* ENDPOINT_LOOKUP.get(item): None when the item is no key.
EndpointLookupGet(item) ==
    IF item \in DOMAIN ENDPOINT_LOOKUP THEN ENDPOINT_LOOKUP[item] ELSE PyNone

\* ------------------------------------------------------------- validators
\* Each validator yields "" when it returns its argument, else the message of
\* the MyPermobilClientException it raises.
Digits == {"0", "1", "2", "3", "4", "5", "6", "7", "8", "9"}

DigitVal(ch) ==
    CASE ch = "0" -> 0 [] ch = "1" -> 1 [] ch = "2" -> 2 [] ch = "3" -> 3
      [] ch = "4" -> 4 [] ch = "5" -> 5 [] ch = "6" -> 6 [] ch = "7" -> 7
      [] ch = "8" -> 8 [] ch = "9" -> 9

\* `not s` for a str or None.
Falsy(s) == s = NONE \/ s = << >>

StartsWith(s, prefix) ==
    /\ Len(s) >= Len(prefix)
    /\ \A i \in 1..Len(prefix) : s[i] = prefix[i]

\* re.match(EMAIL_REGEX, email) with EMAIL_REGEX = [^@]+@[^@]+\.[^@]+ : a
\* match anchored at the start only.  p is the place of the first "@", q the
\* place of a "." with at least one character other than "@" on each side.
EmailMatches(email) ==
    \E p \in 2..Len(email) :
        /\ email[p] = "@"
        /\ \A i \in 1..(p - 1) : email[i] # "@"
        /\ \E q \in (p + 2)..(Len(email) - 1) :
              /\ email[q] = "."
              /\ \A j \in (p + 1)..(q + 1) : email[j] # "@"

validate_email(email) ==
    IF Falsy(email) THEN "Missing email"
    ELSE IF ~EmailMatches(email) THEN "Invalid email"
    ELSE ""

validate_code(code) ==
    IF Falsy(code) THEN "Missing code"
    ELSE IF \E i \in 1..Len(code) : code[i] \notin Digits THEN "Code must be a number"
    ELSE IF Len(code) # 6 THEN "Code must be 6 digits long"
    ELSE ""

\* A token is modelled by its identity and its length, the two things the code
\* uses: the text of the Bearer header and len(token).
TokenLength == 256
Token(id, len) == [id |-> id, len |-> len]
NoToken == Token("<None>", 0)

validate_token(token) ==
    IF token.len = 0 THEN "Missing token"
    ELSE IF token.len # TokenLength THEN "Invalid token"
    ELSE ""

\* The day the clock of the model starts in, as datetime.now() gives it.
Today == << 2026, 11, 6 >>

IsLeap(y) == (y % 4 = 0 /\ y % 100 # 0) \/ y % 400 = 0

DaysInMonth(y, m) ==
    IF m = 2 THEN (IF IsLeap(y) THEN 29 ELSE 28)
    ELSE IF m \in {4, 6, 9, 11} THEN 30 ELSE 31

\* The places of "-" in a date string.
Dashes(s) == { i \in 1..Len(s) : s[i] = "-" }

\* %m of strptime: 1[0-2] | 0[1-9] | [1-9]; 0 when the text is no month.
MonthVal(t) ==
    IF Len(t) = 1 /\ t[1] \in Digits \ {"0"} THEN DigitVal(t[1])
    ELSE IF Len(t) = 2 /\ t[1] = "1" /\ t[2] \in {"0", "1", "2"} THEN 10 + DigitVal(t[2])
    ELSE IF Len(t) = 2 /\ t[1] = "0" /\ t[2] \in Digits \ {"0"} THEN DigitVal(t[2])
    ELSE 0

\* %d of strptime: 3[01] | [12]\d | 0[1-9] | [1-9] | " "[1-9]; 0 when no day.
DayVal(t) ==
    IF Len(t) = 1 /\ t[1] \in Digits \ {"0"} THEN DigitVal(t[1])
    ELSE IF Len(t) = 2 /\ t[1] = "3" /\ t[2] \in {"0", "1"} THEN 30 + DigitVal(t[2])
    ELSE IF Len(t) = 2 /\ t[1] \in {"1", "2"} /\ t[2] \in Digits
         THEN 10 * DigitVal(t[1]) + DigitVal(t[2])
    ELSE IF Len(t) = 2 /\ t[1] \in {"0", " "} /\ t[2] \in Digits \ {"0"} THEN DigitVal(t[2])
    ELSE 0

\* datetime.strptime(s, "%Y-%m-%d"): <<year, month, day>>, or << >> for the
\* ValueError (text that does not match, or a date that does not exist).
Strptime(s) ==
    IF ~(Len(s) >= 8 /\ Cardinality(Dashes(s)) = 2 /\ s[5] = "-"
            /\ \A i \in 1..4 : s[i] \in Digits)
    THEN << >>
    ELSE LET d2 == CHOOSE i \in Dashes(s) : i # 5
             y == 1000 * DigitVal(s[1]) + 100 * DigitVal(s[2])
                     + 10 * DigitVal(s[3]) + DigitVal(s[4])
             m == MonthVal(SubSeq(s, 6, d2 - 1))
             d == DayVal(SubSeq(s, d2 + 1, Len(s)))
         IN  IF d2 > 5 /\ y >= 1 /\ m >= 1 /\ d >= 1 /\ d <= DaysInMonth(y, m)
             THEN << y, m, d >> ELSE << >>

\* date < datetime.datetime.now(): the parsed date is a midnight, now is later
\* in the day Today.
DateBeforeNow(date) ==
    \/ date[1] < Today[1]
    \/ date[1] = Today[1] /\ date[2] < Today[2]
    \/ date[1] = Today[1] /\ date[2] = Today[2] /\ date[3] <= Today[3]

validate_expiration_date(expiration_date) ==
    IF Falsy(expiration_date) THEN "Missing expiration date"
    ELSE IF Strptime(expiration_date) = << >> THEN "Invalid expiration date"
    ELSE IF DateBeforeNow(Strptime(expiration_date)) THEN "Expired token"
    ELSE ""

validate_region(region) ==
    IF Falsy(region) THEN "Missing region"
    ELSE IF ~StartsWith(region, <<"h", "t", "t", "p", "s", ":", "/", "/">>)
            /\ ~StartsWith(region, <<"h", "t", "t", "p", ":", "/", "/">>)
         THEN "Region missing protocol"
    ELSE ""

\* ------------------------------------------------------------------ values
\* What a fetch returns or raises, and what the cache stores: a dict (a set
\* of <<key, value>> pairs), None, or an exception with its class and message.
Val(v) == [t |-> "val", v |-> v, kind |-> "", msg |-> << >>]
NoneVal == [t |-> "none", v |-> {}, kind |-> "", msg |-> << >>]
Exc(kind, msg) == [t |-> "exc", v |-> {}, kind |-> kind, msg |-> msg]
\* asyncio.CancelledError, thrown into a task at the await it is suspended in.
\* It derives from BaseException, not from Exception.
CancelledError == [t |-> "cancelled", v |-> {}, kind |-> "CancelledError", msg |-> << >>]

ClientException(msg) == Exc("MyPermobilClientException", msg)
APIException(msg) == Exc("MyPermobilAPIException", msg)
ConnectionException(text) == Exc("MyPermobilConnectionException", << text >>)

\* isinstance(res, Exception)
IsException(x) == x.t = "exc"

\* The truth value Python gives a dict or None.
Truthy(x) == x.t = "val" /\ x.v # {}

\* dict.get(name): the value, or None.
DictGet(d, name) ==
    IF \E p \in d : p[1] = name THEN (CHOOSE p \in d : p[1] = name)[2] ELSE PyNone

\* How a call ended: it returned res, or it raised res.
Returned(x) == [how |-> "return", res |-> x]
Raised(x) == [how |-> "raise", res |-> x]
NoOutcome == [how |-> "", res |-> NoneVal]

\* What `return x` or `raise x` makes of a value read from the cache or
\* produced by the wrapped function.
Deliver(x) == IF IsException(x) THEN Raised(x) ELSE Returned(x)

\* ------------------------------------------------------------------- state
VARIABLES
    application, email, region, code, token, expiration_date, authenticated,
    aio_session, self_id, raised, op,
    CACHE, CACHE_LOCKS, now, ticks,
    pc, call, resolved, key, cached, response, outcome, sent,
    role, seen, reseen, peers, cold, authed, client

fields == << application, email, region, code, token, expiration_date >>
session == << application, email, region, code, token, expiration_date, authenticated,
             aio_session, self_id >>
shared == << CACHE, CACHE_LOCKS >>
clock == << now, ticks >>
locals == << pc, call, resolved, key, cached, response, outcome, sent >>
history == << role, seen, reseen, peers, cold, authed, client, op >>
vars == << session, raised, shared, clock, locals, history >>

Callers == 1..NumCallers

CACHE_TTL == 5 * 60
CACHE_ERROR_TTL == 10

\* --------------------------------------------------------------- the cache
\* An entry holds the value, the time its ttl runs out, and the time it was set.
\* CACHE.get(key): the stored value while its ttl has not run out, else None.
CacheGet(k) ==
    IF k \in DOMAIN CACHE /\ now < CACHE[k].expires THEN CACHE[k].val ELSE NoneVal

\* CACHE.set(key, value, ttl=ttl): the entry replaces the one under the key.
CacheSet(k, value, ttl) ==
    [x \in (DOMAIN CACHE) \cup {k} |->
        IF x = k THEN [val |-> value, expires |-> now + ttl, at |-> now] ELSE CACHE[x]]

\* How the cache stands for a key: no entry, one whose ttl ran out, a live one.
EntryState(k) ==
    IF k \notin DOMAIN CACHE THEN "absent"
    ELSE IF now < CACHE[k].expires THEN "live" ELSE "expired"

\* ---------------------------------------------------------------- the keys
\* repr of the client object: MyPermobil defines __str__ only, so the tuple
\* of arguments shows the default repr, which names the object by its address.
SelfRepr == << "<mypermobil.mypermobil.MyPermobil object at ", self_id, ">" >>

\* str of the client object, which shows its fields.
SelfStr ==
    << "Permobil(", application, email, region, code, token, expiration_date, ")" >>

\* repr of the dict self.headers returns.
HeadersRepr(tok) == << "{'Authorization': 'Bearer ", tok.id, "'}" >>

\* repr of the keyword arguments, in the order given.
RECURSIVE KwargsRepr(_)
KwargsRepr(kwargs) ==
    IF kwargs = << >> THEN << >>
    ELSE << "'", kwargs[1][1], "': ", kwargs[1][2], ", " >> \o KwargsRepr(Tail(kwargs))

RECURSIVE ArgsRepr(_)
ArgsRepr(args) ==
    IF args = << >> THEN << >>
    ELSE << ", ", args[1] >> \o ArgsRepr(Tail(args))

\* A key that leaves out str(kwargs).
KeyWithoutKwargs(func, args, kwargs) ==
    << func, "(" >> \o SelfRepr \o (IF args = << >> THEN << "," >> ELSE args) \o << ")" >>

\* key = func.__name__ + str(args) + str(kwargs); the tuple of self alone
\* prints with a comma after it.
Key(func, args, kwargs) ==
    << func, "(" >> \o SelfRepr \o (IF args = << >> THEN << "," >> ELSE args)
        \o << ")", "{" >> \o KwargsRepr(kwargs) \o << "}" >>

\* ---------------------------------------------------------------- the calls
\* A call a task makes: the operation and its arguments.  args and kwargs are
\* the arguments of request_regions as the caller wrote them.
ItemCall(item, endpoint) ==
    [op |-> "request_item", item |-> item, endpoint |-> endpoint,
     args |-> << >>, kwargs |-> << >>]
EndpointCall(endpoint) ==
    [op |-> "request_endpoint", item |-> PyNone, endpoint |-> endpoint,
     args |-> << >>, kwargs |-> << >>]
RegionsCall(args, kwargs) ==
    [op |-> "request_regions", item |-> PyNone, endpoint |-> PyNone,
     args |-> args, kwargs |-> kwargs]

\* request_region_names(include_internal): it calls request_regions with both
\* filters as keyword arguments.
RegionNamesCall(include_internal) ==
    [op |-> "request_region_names", item |-> PyNone, endpoint |-> PyNone,
     args |-> << >>,
     kwargs |-> << << "include_icons", "False" >>,
                   << "include_internal", include_internal >> >>]

\* The calls that run request_regions.
IsRegions(cl) == cl.op \in {"request_regions", "request_region_names"}

NoCall == [op |-> "", item |-> PyNone, endpoint |-> PyNone, args |-> << >>, kwargs |-> << >>]

\* The value a parameter of request_regions takes: positional, else keyword,
\* else its default False.
KwargGiven(kwargs, name) == \E i \in 1..Len(kwargs) : kwargs[i][1] = name
KwargValue(kwargs, name) == kwargs[CHOOSE i \in 1..Len(kwargs) : kwargs[i][1] = name][2]
ParamValue(cl, pos, name) ==
    IF Len(cl.args) >= pos THEN cl.args[pos] = "True"
    ELSE IF KwargGiven(cl.kwargs, name) THEN KwargValue(cl.kwargs, name) = "True"
    ELSE FALSE

\* request_item up to the call of request_endpoint: the exception it raises
\* (NoneVal for none) and the endpoint it has then.
request_item(item, endpoint) ==
    IF ~authenticated
    THEN [exc |-> ClientException(<< "Not authenticated" >>), endpoint |-> endpoint]
    ELSE IF endpoint \notin DOMAIN ENDPOINT_LOOKUP /\ endpoint # PyNone
    THEN [exc |-> ClientException(<< "Invalid endpoint ", endpoint >>), endpoint |-> endpoint]
    ELSE LET e == IF endpoint \notin DOMAIN ENDPOINT_LOOKUP
                  THEN EndpointLookupGet(item) ELSE endpoint
         IN  IF e = PyNone
             THEN [exc |-> ClientException(<< "No endpoint for item: ", item >>), endpoint |-> e]
             ELSE IF e \notin Endpoints
             THEN [exc |-> Exc("KeyError", << e >>), endpoint |-> e]
             ELSE IF ~ItemIn(item, e)
             THEN [exc |-> ClientException(<< item, " not in endpoint ", e >>), endpoint |-> e]
             ELSE [exc |-> NoneVal, endpoint |-> e]

\* The key the decorator computes for a call that reaches it.
KeyOf(cl, endpoint) ==
    CASE cl.op = "request_item" ->
            Key("request_endpoint",
                << ", ", "'", endpoint, "'", ", " >> \o HeadersRepr(token), << >>)
      [] cl.op = "request_endpoint" ->
            Key("request_endpoint", << ", ", "'", endpoint, "'" >>, << >>)
      [] IsRegions(cl) ->
            Key("request_regions", ArgsRepr(cl.args), cl.kwargs)

\* ------------------------------------------------------------ HTTP replies
\* What the server answers: a status, a body that is JSON or not, the JSON
\* object (endpoints) or list (regions), and the body as text.  status 0 is a
\* transport failure, with the aiohttp error in text.
Reply(status, isjson, json, list, text) ==
    [status |-> status, isjson |-> isjson, json |-> json, list |-> list, text |-> text]

Region(id, name, port, serverType, host, flag) ==
    [id |-> id, name |-> name, backendPort |-> port, serverType |-> serverType,
     host |-> host, flag |-> flag]

RegionEU == Region("r1", "Europe", 443, "Production", "eu.permobil.com", "flagEU")
RegionTest == Region("r2", "Test", 8080, "Test", "test.permobil.com", "flagT")

\* get_request: what session.get raised, as the exception get_request raises.
get_request_error(text) ==
    CASE text = "ClientConnectorError" -> ConnectionException("Connection error")
      [] text = "TimeoutError" -> ConnectionException("Connection timeout")
      [] text = "ClientError" -> ConnectionException("Client error")
      [] OTHER -> APIException(<< "Unknown error" >>)

\* The body of request_endpoint after get_request returned the reply r.
request_endpoint(r) ==
    IF r.status = 0 THEN get_request_error(r.text)
    ELSE IF ~r.isjson THEN Exc("ContentTypeError", << r.text >>)
    ELSE IF r.status >= 200 /\ r.status < 300 THEN Val(r.json)
    ELSE APIException(<< "Permobil API ", ToString(r.status), ": ",
                         IF \E p \in r.json : p[1] = "error"
                         THEN DictGet(r.json, "error") ELSE r.text >>)

\* The regions dict request_regions builds from the JSON list.
RECURSIVE RegionsDict(_, _, _)
RegionsDict(list, include_icons, include_internal) ==
    IF list = << >> THEN {}
    ELSE LET rg == list[Len(list)]
             before == RegionsDict(SubSeq(list, 1, Len(list) - 1),
                                   include_icons, include_internal)
         IN  IF ~include_internal
                  /\ (rg.backendPort # 443 \/ rg.serverType # "Production")
             THEN before
             ELSE { p \in before : p[1] # rg.id } \cup
                  { << rg.id,
                       [name |-> rg.name, port |-> rg.backendPort,
                        url |-> << IF rg.backendPort = 443 THEN "https" ELSE "http",
                                   "://", rg.host >>,
                        icon |-> IF include_icons THEN rg.flag ELSE "<no key>"] >> }

\* The body of request_regions after get_request returned the reply r.
request_regions(r, include_icons, include_internal) ==
    IF r.status = 0 THEN get_request_error(r.text)
    ELSE IF r.status = 200
    THEN (IF r.isjson THEN Val(RegionsDict(r.list, include_icons, include_internal))
          ELSE Exc("ContentTypeError", << r.text >>))
    ELSE IF r.status \in {404, 500} THEN APIException(<< r.text >>)
    ELSE NoneVal

\* The replies the model draws from.
EndpointReplies ==
    { Reply(200, TRUE, { << "stateOfCharge", "80" >> }, << >>, "{stateOfCharge: 80}"),
      Reply(200, TRUE, {}, << >>, "{}"),
      Reply(500, TRUE, { << "error", "maintenance" >> }, << >>, "{error: maintenance}") }

RegionReplies ==
    { Reply(200, TRUE, {}, << RegionEU, RegionTest >>, "[r1, r2]"),
      Reply(200, TRUE, {}, << RegionTest >>, "[r2]"),
      Reply(500, FALSE, {}, << >>, "Internal Server Error"),
      Reply(403, FALSE, {}, << >>, "Forbidden") }

\* ------------------------------------------------------------------- Init
NoRequest == [url |-> << >>, auth |-> << >>]

\* The session operation called last, with its argument.
Op(name, arg) == [name |-> name, arg |-> arg]
NoOp == Op("", << >>)

\* The client object a call was made on: its address and its str() then.
NoClient == [id |-> "", str |-> << >>]

\* What the constructor sets whatever its arguments, and the module state at
\* import.
Constructed ==
    /\ authenticated = FALSE
    /\ aio_session = "open"
    /\ self_id = "0x1"
    /\ raised = ""
    /\ op = NoOp
    /\ CACHE = [k \in {} |-> [val |-> NoneVal, expires |-> 0, at |-> 0]]
    /\ CACHE_LOCKS = {}
    /\ now = 0
    /\ ticks = 0
    /\ pc = [c \in Callers |-> "idle"]
    /\ call = [c \in Callers |-> NoCall]
    /\ resolved = [c \in Callers |-> PyNone]
    /\ key = [c \in Callers |-> << >>]
    /\ cached = [c \in Callers |-> NoneVal]
    /\ response = [c \in Callers |-> NoneVal]
    /\ outcome = [c \in Callers |-> NoOutcome]
    /\ sent = [c \in Callers |-> NoRequest]
    /\ role = [c \in Callers |-> ""]
    /\ seen = [c \in Callers |-> ""]
    /\ reseen = [c \in Callers |-> ""]
    /\ peers = [c \in Callers |-> {}]
    /\ cold = [c \in Callers |-> FALSE]
    /\ authed = [c \in Callers |-> FALSE]
    /\ client = [c \in Callers |-> NoClient]

Init ==
    /\ application = << "a", "p", "p" >>
    /\ email = << "a", "@", "b", ".", "c" >>
    /\ region = << "h", "t", "t", "p", "s", ":", "/", "/", "e", "u" >>
    /\ code = NONE
    /\ token = Token("tokenA", TokenLength)
    /\ expiration_date = << "2", "9", "9", "9", "-", "0", "1", "-", "0", "1" >>
    /\ Constructed

\* ---------------------------------------------------------------- session
\* MyPermobil(application, session, email, region, code, token,
\* expiration_date): the program drops its client and constructs another one,
\* with no call in flight.  The new object lies at an address of its own or, the
\* old one freed, at the old address; CACHE and CACHE_LOCKS are the module's.
Addresses == { "0x1", "0x2" }

MyPermobil(args, address) ==
    /\ \A c \in Callers : pc[c] \in {"idle", "done"}
    /\ application' = args[1]
    /\ email' = args[2]
    /\ region' = args[3]
    /\ code' = args[4]
    /\ token' = args[5]
    /\ expiration_date' = args[6]
    /\ authenticated' = FALSE
    /\ aio_session' = "open"
    /\ self_id' = address
    /\ raised' = ""
    /\ op' = Op("MyPermobil", << >>)
    /\ UNCHANGED << shared, clock, locals, role, seen, reseen, peers, cold, authed, client >>

\* self_authenticate without its validate_token line.
self_authenticate_error_no_token ==
    IF authenticated THEN "Already authenticated"
    ELSE IF Falsy(application) THEN "Missing application name"
    ELSE IF validate_region(region) # "" THEN validate_region(region)
    ELSE IF validate_email(email) # "" THEN validate_email(email)
    ELSE validate_expiration_date(expiration_date)

\* self_authenticate: the message of the exception it raises, or "".
self_authenticate_error ==
    IF authenticated THEN "Already authenticated"
    ELSE IF Falsy(application) THEN "Missing application name"
    ELSE IF validate_region(region) # "" THEN validate_region(region)
    ELSE IF validate_email(email) # "" THEN validate_email(email)
    ELSE IF validate_token(token) # "" THEN validate_token(token)
    ELSE validate_expiration_date(expiration_date)

self_authenticate ==
    /\ raised' = self_authenticate_error
    /\ authenticated' = (authenticated \/ self_authenticate_error = "")
    /\ op' = Op("self_authenticate", << >>)
    /\ UNCHANGED << fields, aio_session, self_id >>
    /\ UNCHANGED << shared, clock, locals, role, seen, reseen, peers, cold, authed, client >>

\* The setters: the exception each raises ("" for none) for an argument v.
set_email_error(v) ==
    IF authenticated THEN "Cannot change email after authentication"
    ELSE validate_email(v)

set_region_error(v) ==
    IF authenticated THEN "Cannot change region after authentication"
    ELSE validate_region(v)

set_code_error(v) ==
    IF authenticated THEN "Cannot change code after authentication"
    ELSE validate_code(v)

set_token_error_unguarded(v) == validate_token(v)

set_token_error(v) ==
    IF authenticated THEN "Cannot change token after authentication"
    ELSE validate_token(v)

set_expiration_date_error(v) ==
    IF authenticated THEN "Cannot change date after authentication"
    ELSE validate_expiration_date(v)

set_application_error(v) ==
    IF authenticated THEN "Cannot change app after authentication" ELSE ""

\* What a session operation leaves alone besides the fields.
SessionFrame ==
    UNCHANGED << authenticated, aio_session, self_id, shared, clock, locals,
                 role, seen, reseen, peers, cold, authed, client >>

set_email(v) ==
    /\ op' = Op("set_email", v)
    /\ raised' = set_email_error(v)
    /\ email' = IF set_email_error(v) = "" THEN v ELSE email
    /\ UNCHANGED << application, region, code, token, expiration_date >>
    /\ SessionFrame

set_region(v) ==
    /\ op' = Op("set_region", v)
    /\ raised' = set_region_error(v)
    /\ region' = IF set_region_error(v) = "" THEN v ELSE region
    /\ UNCHANGED << application, email, code, token, expiration_date >>
    /\ SessionFrame

set_code(v) ==
    /\ op' = Op("set_code", v)
    /\ raised' = set_code_error(v)
    /\ code' = IF set_code_error(v) = "" THEN v ELSE code
    /\ UNCHANGED << application, email, region, token, expiration_date >>
    /\ SessionFrame

set_token(v) ==
    /\ op' = Op("set_token", v)
    /\ raised' = set_token_error(v)
    /\ token' = IF set_token_error(v) = "" THEN v ELSE token
    /\ UNCHANGED << application, email, region, code, expiration_date >>
    /\ SessionFrame

set_expiration_date(v) ==
    /\ op' = Op("set_expiration_date", v)
    /\ raised' = set_expiration_date_error(v)
    /\ expiration_date' = IF set_expiration_date_error(v) = "" THEN v ELSE expiration_date
    /\ UNCHANGED << application, email, region, code, token >>
    /\ SessionFrame

set_application(v) ==
    /\ op' = Op("set_application", v)
    /\ raised' = set_application_error(v)
    /\ application' = IF set_application_error(v) = "" THEN v ELSE application
    /\ UNCHANGED << email, region, code, token, expiration_date >>
    /\ SessionFrame

\* A deauthenticate that clears the flag.
deauthenticate_clearing ==
    /\ op' = Op("deauthenticate", << >>)
    /\ raised' = IF ~authenticated THEN "Not authenticated" ELSE ""
    /\ authenticated' = FALSE
    /\ UNCHANGED << fields, aio_session, self_id, shared, clock, locals,
                    role, seen, reseen, peers, cold, authed, client >>

\* deauthenticate: raises when not authenticated, and else does nothing.
deauthenticate ==
    /\ op' = Op("deauthenticate", << >>)
    /\ raised' = IF ~authenticated THEN "Not authenticated" ELSE ""
    /\ UNCHANGED fields
    /\ SessionFrame

\* close_session: raises when the session is None, else closes it and sets
\* self.session to None.
close_session ==
    /\ op' = Op("close_session", << >>)
    /\ raised' = IF aio_session = PyNone THEN "Session does not exist" ELSE ""
    /\ aio_session' = PyNone
    /\ UNCHANGED << fields, authenticated, self_id, shared, clock, locals,
                    role, seen, reseen, peers, cold, authed, client >>

\* ------------------------------------------------- the application requests
\* The arguments of request_application_code and request_application_token,
\* NONE for one not given.
RequestArgs(email_, code_, region_, application_, expiration_date_) ==
    [email |-> email_, code |-> code_, region |-> region_,
     application |-> application_, expiration_date |-> expiration_date_]

\* `if x is None: x = self.x`
OrSelf(x, own) == IF x = NONE THEN own ELSE x

\* post_request: what session.post raised, as the message of the exception
\* post_request raises; with self.session None the AttributeError is the
\* "Unknown error".
post_request_error(r) ==
    IF aio_session = PyNone THEN "Unknown error"
    ELSE IF r.status # 0 THEN ""
    ELSE CASE r.text = "ClientConnectorError" -> "Connection error"
           [] r.text = "TimeoutError" -> "Connection timeout"
           [] r.text = "ClientError" -> "Client error"
           [] OTHER -> "Unknown error"

\* request_application_code: the message of the exception it raises, "" when
\* it returns.
request_application_code_error(a, r) ==
    IF authenticated THEN "Already authenticated"
    ELSE IF Falsy(OrSelf(a.application, application)) THEN "Missing application name"
    ELSE IF validate_email(OrSelf(a.email, email)) # ""
    THEN validate_email(OrSelf(a.email, email))
    ELSE IF validate_region(OrSelf(a.region, region)) # ""
    THEN validate_region(OrSelf(a.region, region))
    ELSE IF post_request_error(r) # "" THEN post_request_error(r)
    ELSE IF r.status # 204 THEN r.text
    ELSE ""

request_application_code(a, r) ==
    /\ op' = Op("request_application_code", << >>)
    /\ raised' = request_application_code_error(a, r)
    /\ UNCHANGED fields
    /\ SessionFrame

\* datetime.now() + timedelta(days=365), as <<year, month, day>>: the same day
\* of the next year, or the day before it when a 29th of February lies between.
PlusYearOfDays(date) ==
    LET y == date[1]  m == date[2]  d == date[3]
        leapBetween == (IsLeap(y) /\ m <= 2) \/ (IsLeap(y + 1) /\ m >= 3)
    IN  IF ~leapBetween THEN << y + 1, m, d >>
        ELSE IF m = 2 /\ d = 29 THEN << y + 1, 2, 28 >>
        ELSE IF d > 1 THEN << y + 1, m, d - 1 >>
        ELSE IF m > 1 THEN << y + 1, m - 1, DaysInMonth(y + 1, m - 1) >>
        ELSE << y, 12, 31 >>

\* date.strftime("%Y-%m-%d")
DigitChar(n) == CHOOSE ch \in Digits : DigitVal(ch) = n

Strftime(date) ==
    << DigitChar(date[1] \div 1000), DigitChar((date[1] \div 100) % 10),
       DigitChar((date[1] \div 10) % 10), DigitChar(date[1] % 10), "-",
       DigitChar(date[2] \div 10), DigitChar(date[2] % 10), "-",
       DigitChar(date[3] \div 10), DigitChar(date[3] % 10) >>

\* json.get("token"): the token of the body, None when it has none.
JsonToken(r) ==
    IF \E p \in r.json : p[1] = "token" THEN DictGet(r.json, "token") ELSE NoToken

\* request_application_token: the message of the exception it raises, "" when
\* it returns.
request_application_token_error(a, r) ==
    IF authenticated THEN "Already authenticated"
    ELSE IF validate_email(OrSelf(a.email, email)) # ""
    THEN validate_email(OrSelf(a.email, email))
    ELSE IF validate_region(OrSelf(a.region, region)) # ""
    THEN validate_region(OrSelf(a.region, region))
    ELSE IF validate_code(OrSelf(a.code, code)) # ""
    THEN validate_code(OrSelf(a.code, code))
    ELSE IF post_request_error(r) # "" THEN post_request_error(r)
    ELSE IF r.status = 200 THEN (IF r.isjson THEN "" ELSE "ContentTypeError")
    ELSE IF r.status = 401 THEN "Email not registered for region"
    ELSE IF r.status = 403 THEN "Incorrect code"
    ELSE IF r.status \in {400, 500}
    THEN (IF ~r.isjson THEN "ContentTypeError"
          ELSE IF \E p \in r.json : p[1] = "error" THEN DictGet(r.json, "error")
          ELSE r.text)
    ELSE r.text

\* What request_application_token returns: (token, expiration_date), the date
\* the one given or a year of days from now.
request_application_token_result(a, r) ==
    << JsonToken(r),
       IF a.expiration_date = NONE THEN Strftime(PlusYearOfDays(Today))
       ELSE a.expiration_date >>

\* A request_application_token that stores what it returns in the session.
request_application_token_storing(a, r) ==
    LET err == request_application_token_error(a, r)
        res == request_application_token_result(a, r)
    IN  /\ op' = Op("request_application_token", IF err = "" THEN res ELSE << >>)
        /\ raised' = err
        /\ token' = IF err = "" THEN res[1] ELSE token
        /\ expiration_date' = IF err = "" THEN res[2] ELSE expiration_date
        /\ UNCHANGED << application, email, region, code >>
        /\ SessionFrame

request_application_token(a, r) ==
    LET err == request_application_token_error(a, r)
        res == request_application_token_result(a, r)
    IN  /\ op' = Op("request_application_token", IF err = "" THEN res ELSE << >>)
        /\ raised' = err
        /\ UNCHANGED fields
        /\ SessionFrame

\* ------------------------------------------------------------- the wrapper
InFlight(c) == pc[c] \notin {"idle", "done"}

\* A task calls an operation.  request_item runs to the exception it raises or
\* into request_endpoint; the wrapper computes the key and awaits CACHE.get.
\* Tasks are numbered in the order they call.
Enter(c, cl) ==
    /\ pc[c] = "idle"
    /\ \A d \in Callers : d < c => pc[d] # "idle"
    /\ LET ri == request_item(cl.item, cl.endpoint)
           fails == cl.op = "request_item" /\ ri.exc # NoneVal
           e == IF cl.op = "request_item" THEN ri.endpoint ELSE cl.endpoint
           k == KeyOf(cl, e)
       IN  /\ call' = [call EXCEPT ![c] = cl]
           /\ authed' = [authed EXCEPT ![c] = authenticated]
           /\ resolved' = [resolved EXCEPT ![c] = e]
           /\ IF fails
              THEN /\ pc' = [pc EXCEPT ![c] = "done"]
                   /\ outcome' = [outcome EXCEPT ![c] = Raised(ri.exc)]
                   /\ UNCHANGED << key, peers, cold >>
              ELSE /\ pc' = [pc EXCEPT ![c] = "get"]
                   /\ key' = [key EXCEPT ![c] = k]
                   /\ peers' = [peers EXCEPT ![c] =
                                   { d \in Callers : InFlight(d) /\ key[d] = k }]
                   /\ cold' = [cold EXCEPT ![c] = EntryState(k) # "live"]
                   /\ UNCHANGED outcome
    /\ UNCHANGED << session, raised, shared, clock, cached, response, sent,
                    role, seen, reseen, op >>

Invoke(c, cl) ==
    /\ Enter(c, cl)
    /\ UNCHANGED client

\* The same call, with the client object it is made on kept for the record:
\* args[0] of the wrapper, by its address and its str().
InvokeOn(c, cl) ==
    /\ Enter(c, cl)
    /\ client' = [client EXCEPT ![c] = [id |-> self_id, str |-> SelfStr]]

\* async_get_cache(key) at the top of the wrapper: an exception in the cache is
\* raised, a truthy value is returned, anything else goes on to the gate.
async_get_cache(c) ==
    /\ pc[c] = "get"
    /\ LET res == CacheGet(key[c])
       IN  /\ cached' = [cached EXCEPT ![c] = res]
           /\ seen' = [seen EXCEPT ![c] = EntryState(key[c])]
           /\ IF IsException(res) \/ Truthy(res)
              THEN /\ pc' = [pc EXCEPT ![c] = "done"]
                   /\ outcome' = [outcome EXCEPT ![c] = Deliver(res)]
                   /\ role' = [role EXCEPT ![c] = "hit"]
              ELSE /\ pc' = [pc EXCEPT ![c] = "got"]
                   /\ UNCHANGED << outcome, role >>
    /\ UNCHANGED << session, raised, shared, clock, call, resolved, key, response,
                    sent, reseen, peers, cold, authed, client, op >>

\* `key in CACHE_LOCKS`
GateExistsNever(k) == FALSE

GateExists(k) == k \in CACHE_LOCKS

\* The request the wrapped function sends: request_endpoint through
\* get_request(self.region + endpoint), which adds the Authorization header
\* when authenticated; request_regions with headers={}.
RequestOf(c) ==
    IF IsRegions(call[c])
    THEN [url |-> << GET_REGIONS >>, auth |-> << >>]
    ELSE [url |-> region \o << resolved[c] >>,
          auth |-> IF authenticated THEN << "Bearer ", token.id >> ELSE << >>]

\* After the miss: wait on the gate of the key when there is one, else create
\* the gate and start the wrapped function, up to its first await.
\* request_endpoint called without headers reads self.headers first.
\* With self.session None, self.session.get raises AttributeError inside the
\* try of get_request, whose last except clause makes it the API exception.
AfterMiss(c) ==
    /\ pc[c] = "got"
    /\ IF GateExists(key[c])
       THEN /\ pc' = [pc EXCEPT ![c] = "wait"]
            /\ role' = [role EXCEPT ![c] = "follower"]
            /\ UNCHANGED << CACHE_LOCKS, response, sent >>
       ELSE /\ CACHE_LOCKS' = CACHE_LOCKS \cup {key[c]}
            /\ role' = [role EXCEPT ![c] = "leader"]
            /\ IF call[c].op = "request_endpoint" /\ ~authenticated
               THEN /\ pc' = [pc EXCEPT ![c] = "set"]
                    /\ response' = [response EXCEPT ![c] =
                                       ClientException(<< "Not authenticated" >>)]
                    /\ UNCHANGED sent
               ELSE IF aio_session = PyNone
               THEN /\ pc' = [pc EXCEPT ![c] = "set"]
                    /\ response' = [response EXCEPT ![c] =
                                       get_request_error("AttributeError")]
                    /\ UNCHANGED sent
               ELSE /\ pc' = [pc EXCEPT ![c] = "fetch"]
                    /\ sent' = [sent EXCEPT ![c] = RequestOf(c)]
                    /\ UNCHANGED response
    /\ UNCHANGED << session, raised, CACHE, clock, call, resolved, key, cached, outcome,
                    seen, reseen, peers, cold, authed, client, op >>

\* The reply arrives and the wrapped function returns or raises.
FetchResult(c, r) ==
    IF IsRegions(call[c])
    THEN request_regions(r, ParamValue(call[c], 1, "include_icons"),
                            ParamValue(call[c], 2, "include_internal"))
    ELSE request_endpoint(r)

HttpReply(c, r) ==
    /\ pc[c] = "fetch"
    /\ pc' = [pc EXCEPT ![c] = "set"]
    /\ response' = [response EXCEPT ![c] = FetchResult(c, r)]
    /\ UNCHANGED << session, raised, shared, clock, call, resolved, key, cached,
                    outcome, sent, history >>

\* The ttl the wrapper stores an outcome with.
TtlOfAlwaysLong(res) == CACHE_TTL

TtlOf(res) == IF IsException(res) THEN CACHE_ERROR_TTL ELSE CACHE_TTL

\* CACHE.set(key, response, ttl=CACHE_TTL), or CACHE.set(key, err,
\* ttl=CACHE_ERROR_TTL) in the except branch.
CacheStore(c) ==
    /\ pc[c] = "set"
    /\ CACHE' = CacheSet(key[c], response[c], TtlOf(response[c]))
    /\ pc' = [pc EXCEPT ![c] = "stored"]
    /\ UNCHANGED << session, raised, CACHE_LOCKS, clock, call, resolved, key, cached,
                    response, outcome, sent, history >>

\* CACHE_LOCKS[key].set(): every task waiting on the event is made ready;
\* the task itself leaves the wrapper.
ReleasedNobody(c) == [pc EXCEPT ![c] = "done"]

Released(c) ==
    [d \in Callers |->
        IF d = c THEN "done"
        ELSE IF pc[d] = "wait" /\ key[d] = key[c] THEN "woken"
        ELSE pc[d]]

\* A finally block that sets the event and leaves the gate in the table.
FinallyKeepingGate(c) ==
    /\ pc' = Released(c)
    /\ CACHE_LOCKS' = CACHE_LOCKS

\* The finally block of the wrapper: set the event, delete the gate.
Finally(c) ==
    /\ pc' = Released(c)
    /\ CACHE_LOCKS' = CACHE_LOCKS \ {key[c]}

\* The leader resumes after CACHE.set: finally, then return response or raise err.
Finish(c) ==
    /\ pc[c] = "stored"
    /\ Finally(c)
    /\ outcome' = [outcome EXCEPT ![c] = Deliver(response[c])]
    /\ UNCHANGED << session, raised, CACHE, clock, call, resolved, key, cached,
                    response, sent, history >>

\* The leader's task is cancelled at one of its awaits: CancelledError is no
\* Exception, so only the finally block runs.
CancelLeader(c) ==
    /\ pc[c] \in {"fetch", "set", "stored"}
    /\ Finally(c)
    /\ outcome' = [outcome EXCEPT ![c] = Raised(CancelledError)]
    /\ UNCHANGED << session, raised, CACHE, clock, call, resolved, key, cached,
                    response, sent, history >>

\* What a follower's cancellation does to the gates: nothing.
AbandonGatesDropped(c) == CACHE_LOCKS \ {key[c]}

AbandonGates(c) == CACHE_LOCKS

\* A follower is cancelled (or its caller gives up) while it waits on the gate.
CancelWaiter(c) ==
    /\ pc[c] = "wait"
    /\ pc' = [pc EXCEPT ![c] = "done"]
    /\ outcome' = [outcome EXCEPT ![c] = Raised(CancelledError)]
    /\ CACHE_LOCKS' = AbandonGates(c)
    /\ UNCHANGED << session, raised, CACHE, clock, call, resolved, key, cached,
                    response, sent, history >>

\* A follower resumes after the gate: async_get_cache(key) again, and the
\* result is returned whatever it is.
Requery(c) ==
    /\ pc[c] = "woken"
    /\ pc' = [pc EXCEPT ![c] = "done"]
    /\ outcome' = [outcome EXCEPT ![c] = Deliver(CacheGet(key[c]))]
    /\ reseen' = [reseen EXCEPT ![c] = EntryState(key[c])]
    /\ UNCHANGED << session, raised, shared, clock, call, resolved, key, cached,
                    response, sent, role, seen, peers, cold, authed, client, op >>

\* Time passes.
TickSteps == {1, CACHE_ERROR_TTL, CACHE_TTL}

Tick(d) ==
    /\ ticks < MaxTicks
    /\ ticks' = ticks + 1
    /\ now' = now + d
    /\ UNCHANGED << session, raised, shared, locals, history >>

\* What request_item returns or raises once request_endpoint is over:
\* response.get(item), with response the dict, or None after a leader that
\* stored nothing.
ItemResult(c) ==
    IF outcome[c].how = "raise" THEN << "raise", outcome[c].res.kind >>
    ELSE IF outcome[c].res.t = "none" THEN << "raise", "AttributeError" >>
    ELSE << "return", DictGet(outcome[c].res.v, call[c].item) >>

\* ---------------------------------------------------------- specifications
\* The steps of a call between its awaits.
Step(c) ==
    \/ async_get_cache(c)
    \/ AfterMiss(c)
    \/ \E r \in (IF IsRegions(call[c]) THEN RegionReplies
                 ELSE EndpointReplies) : HttpReply(c, r)
    \/ CacheStore(c)
    \/ Finish(c)
    \/ Requery(c)

\* Spec: every operation, cancellation and the clock, with SpecCallers tasks.
Calls ==
    { ItemCall("stateOfCharge", PyNone),
      EndpointCall(ENDPOINT_BATTERY_INFO),
      RegionsCall(<< >>, << >>) }

Next ==
    \/ self_authenticate
    \/ \E c \in 1..SpecCallers : \E cl \in Calls : Invoke(c, cl)
    \/ \E c \in Callers : Step(c)
    \/ \E c \in Callers : CancelLeader(c)
    \/ \E c \in Callers : CancelWaiter(c)
    \/ \E d \in TickSteps : Tick(d)

Spec == Init /\ [][Next]_vars

\* GateSpec: NumCallers tasks on two keys of request_regions, with
\* cancellation, no clock.
GateCalls ==
    { RegionsCall(<< >>, << >>),
      RegionsCall(<< >>, << << "include_internal", "True" >> >>) }

GateNext ==
    \/ \E c \in Callers : \E cl \in GateCalls : Invoke(c, cl)
    \/ \E c \in Callers : Step(c)
    \/ \E c \in Callers : CancelLeader(c)
    \/ \E c \in Callers : CancelWaiter(c)

GateSpec == Init /\ [][GateNext]_vars

\* LiveSpec: NumCallers tasks on one key, in which a leader that can take its
\* next step does take it: the reply arrives, CACHE.set completes, the task
\* is resumed.
LiveNext ==
    \/ \E c \in Callers : Invoke(c, RegionsCall(<< >>, << >>))
    \/ \E c \in Callers : Step(c)
    \/ \E c \in Callers : CancelLeader(c)
    \/ \E c \in Callers : CancelWaiter(c)

LeaderProgress ==
    \E c \in Callers :
        \/ \E r \in RegionReplies : HttpReply(c, r)
        \/ CacheStore(c)
        \/ Finish(c)

LiveSpec == Init /\ [][LiveNext]_vars /\ WF_vars(LeaderProgress)

\* ItemSpec: one task calling request_item over a sample of items and
\* endpoint arguments.
SampleItems ==
    { "stateOfCharge", "distanceUnit", "chargeTimeLeft", "status", "distance",
      "seatingRecord", "localTimestamp", "WCSerial", "_id", "bogus" }

SampleEndpoints ==
    { PyNone, ENDPOINT_BATTERY_INFO, ENDPOINT_VA_USAGE_RECORDS, ENDPOINT_PRODUCTS,
      "/api/v1/unknown", "status" }

ItemCalls == { ItemCall(i, e) : i \in SampleItems, e \in SampleEndpoints }

ItemNext ==
    \/ self_authenticate
    \/ \E cl \in ItemCalls : Invoke(1, cl)
    \/ async_get_cache(1)
    \/ AfterMiss(1)
    \/ \E r \in EndpointReplies : HttpReply(1, r)
    \/ CacheStore(1)
    \/ Finish(1)

ItemSpec == Init /\ [][ItemNext]_vars

\* RegionsSpec: SpecCallers tasks calling request_regions and
\* request_region_names in every form of the two filters.
RegionCalls ==
    { RegionsCall(<< >>, << >>),
      RegionsCall(<< "True" >>, << >>),
      RegionsCall(<< "False", "True" >>, << >>),
      RegionsCall(<< >>, << << "include_icons", "True" >> >>),
      RegionsCall(<< >>, << << "include_internal", "True" >> >>),
      RegionsCall(<< "True" >>, << << "include_internal", "True" >> >>),
      RegionNamesCall("False"),
      RegionNamesCall("True") }

RegionsNext ==
    \/ \E c \in 1..SpecCallers : \E cl \in RegionCalls : Invoke(c, cl)
    \/ \E c \in Callers : Step(c)

RegionsSpec == Init /\ [][RegionsNext]_vars

\* EndpointSpec: SpecCallers tasks calling request_endpoint on a session that
\* may authenticate, the server answering with JSON and non-JSON bodies under
\* statuses on both sides of the 2xx range, or not at all.
StatusReplies ==
    { Reply(200, TRUE, { << "stateOfCharge", "80" >> }, << >>, "{stateOfCharge: 80}"),
      Reply(299, TRUE, {}, << >>, "{}"),
      Reply(200, FALSE, {}, << >>, "OK"),
      Reply(300, TRUE, { << "error", "moved" >> }, << >>, "{error: moved}"),
      Reply(401, TRUE, { << "error", "unauthorized" >> }, << >>, "{error: unauthorized}"),
      Reply(500, TRUE, { << "message", "down" >> }, << >>, "{message: down}"),
      Reply(502, FALSE, {}, << >>, "Bad Gateway"),
      Reply(0, FALSE, {}, << >>, "TimeoutError") }

EndpointCalls == { EndpointCall(ENDPOINT_BATTERY_INFO), EndpointCall(ENDPOINT_PRODUCTS) }

EndpointNext ==
    \/ self_authenticate
    \/ \E c \in 1..SpecCallers : \E cl \in EndpointCalls : Invoke(c, cl)
    \/ \E c \in 1..SpecCallers : async_get_cache(c)
    \/ \E c \in 1..SpecCallers : AfterMiss(c)
    \/ \E c \in 1..SpecCallers : \E r \in StatusReplies : HttpReply(c, r)
    \/ \E c \in 1..SpecCallers : CacheStore(c)
    \/ \E c \in 1..SpecCallers : Finish(c)
    \/ \E c \in 1..SpecCallers : Requery(c)

EndpointSpec == Init /\ [][EndpointNext]_vars

\* ClientsSpec: SpecCallers tasks calling request_endpoint and request_regions
\* while the program replaces its client by one of another user or of the same
\* user, changes the e-mail of the client it has, and authenticates.
ClientArgs ==
    { << << "a", "p", "p" >>, << "a", "@", "b", ".", "c" >>,
         << "h", "t", "t", "p", "s", ":", "/", "/", "e", "u" >>, NONE,
         Token("tokenA", TokenLength),
         << "2", "9", "9", "9", "-", "0", "1", "-", "0", "1" >> >>,
      << << "a", "p", "p" >>, << "x", "@", "y", ".", "z" >>,
         << "h", "t", "t", "p", "s", ":", "/", "/", "e", "u" >>, NONE,
         Token("tokenB", TokenLength),
         << "2", "9", "9", "9", "-", "0", "1", "-", "0", "1" >> >> }

ClientCalls == { EndpointCall(ENDPOINT_BATTERY_INFO), RegionsCall(<< >>, << >>) }

ClientsNext ==
    \/ \E args \in ClientArgs : \E address \in Addresses : MyPermobil(args, address)
    \/ set_email(<< "x", "@", "y", ".", "z" >>)
    \/ self_authenticate
    \/ \E c \in 1..SpecCallers : \E cl \in ClientCalls : InvokeOn(c, cl)
    \/ \E c \in Callers : Step(c)

ClientsSpec == Init /\ [][ClientsNext]_vars

\* SessionSpec: a session constructed with any of a sample of arguments (the
\* constructor validates nothing), every session operation over a sample of
\* arguments, and one task fetching.
EmailSamples ==
    { NONE, << "a", "@", "b", ".", "c" >>, << "x", "@", "y", ".", "z" >>, << "a", "b" >> }
EmailArgs == EmailSamples \ { << "a", "@", "b", ".", "c" >> }

RegionSamples ==
    { NONE,
      << "h", "t", "t", "p", "s", ":", "/", "/", "e", "u" >>,
      << "h", "t", "t", "p", ":", "/", "/", "u", "s" >>,
      << "e", "u" >> }
RegionArgs == RegionSamples \ { << "h", "t", "t", "p", "s", ":", "/", "/", "e", "u" >> }

CodeArgs ==
    { NONE, << "1", "2", "3", "4", "5", "6" >>, << "1", "2", "3" >>,
      << "1", "2", "3", "4", "5", "x" >> }

TokenSamples ==
    { NoToken, Token("tokenA", TokenLength), Token("tokenB", TokenLength),
      Token("short", TokenLength - 1) }
TokenArgs == TokenSamples \ { Token("tokenA", TokenLength) }

DateSamples ==
    { NONE,
      << "2", "9", "9", "9", "-", "0", "1", "-", "0", "1" >>,
      << "2", "0", "3", "0", "-", "1", "2", "-", "3", "1" >>,
      << "2", "0", "2", "0", "-", "0", "1", "-", "0", "1" >>,
      << "2", "0", "3", "0", "-", "0", "2", "-", "3", "0" >> }
DateArgs == DateSamples \ { << "2", "9", "9", "9", "-", "0", "1", "-", "0", "1" >> }

ApplicationSamples == { << "a", "p", "p" >>, << "a", "p", "p", "2" >>, << >> }
ApplicationArgs == ApplicationSamples \ { << "a", "p", "p" >> }

\* The constructions: everything given and valid, only the application given,
\* and one with each field of self_authenticate invalid.
Constructions ==
    { << << "a", "p", "p" >>, << "a", "@", "b", ".", "c" >>,
               << "h", "t", "t", "p", "s", ":", "/", "/", "e", "u" >>, NONE,
               Token("tokenA", TokenLength),
               << "2", "9", "9", "9", "-", "0", "1", "-", "0", "1" >> >>,
            << << "a", "p", "p" >>, NONE, NONE, NONE, NoToken, NONE >>,
            << << >>, << "a", "b" >>, << "e", "u" >>, NONE,
               Token("short", TokenLength - 1),
               << "2", "0", "2", "0", "-", "0", "1", "-", "0", "1" >> >> }

SessionInit ==
    /\ \E args \in Constructions :
          /\ application = args[1]
          /\ email = args[2]
          /\ region = args[3]
          /\ code = args[4]
          /\ token = args[5]
          /\ expiration_date = args[6]
    /\ Constructed

SessionCalls == { EndpointCall(ENDPOINT_BATTERY_INFO) }

SessionNext ==
    \/ \E v \in EmailArgs : set_email(v)
    \/ \E v \in RegionArgs : set_region(v)
    \/ \E v \in CodeArgs : set_code(v)
    \/ \E v \in TokenArgs : set_token(v)
    \/ \E v \in DateArgs : set_expiration_date(v)
    \/ \E v \in ApplicationArgs : set_application(v)
    \/ self_authenticate
    \/ deauthenticate
    \/ close_session
    \/ \E cl \in SessionCalls : Invoke(1, cl)
    \/ async_get_cache(1)
    \/ AfterMiss(1)
    \/ \E r \in EndpointReplies : HttpReply(1, r)
    \/ CacheStore(1)
    \/ Finish(1)

SessionSpec == SessionInit /\ [][SessionNext]_vars

\* AuthSpec: the way to an authenticated session.  A session constructed as in
\* SessionSpec asks for a code and for a token, the server answering in a sample
\* of the ways the two operations tell apart; the application sets code, token and
\* date and authenticates; task 1 calls one of the cacheable operations.
CodeReplies ==
    { Reply(204, FALSE, {}, << >>, ""),
      Reply(404, FALSE, {}, << >>, "Not Found") }

TokenReplies ==
    { Reply(200, TRUE, { << "token", Token("tokenB", TokenLength) >> }, << >>, "{token: B}"),
      Reply(200, TRUE, {}, << >>, "{}"),
      Reply(403, FALSE, {}, << >>, "Forbidden"),
      Reply(400, TRUE, { << "error", "bad request" >> }, << >>, "{error: bad request}"),
      Reply(0, FALSE, {}, << >>, "ClientConnectorError") }

ValidCode == << "1", "2", "3", "4", "5", "6" >>

AuthArgs ==
    { RequestArgs(NONE, NONE, NONE, NONE, NONE),
      RequestArgs(<< "a", "@", "b", ".", "c" >>, ValidCode,
                  << "h", "t", "t", "p", "s", ":", "/", "/", "e", "u" >>,
                  << "a", "p", "p" >>,
                  << "2", "0", "3", "0", "-", "1", "2", "-", "3", "1" >>) }

AuthCalls ==
    { ItemCall("stateOfCharge", PyNone),
      EndpointCall(ENDPOINT_BATTERY_INFO),
      RegionsCall(<< >>, << >>) }

AuthNext ==
    \/ \E a \in AuthArgs : \E r \in CodeReplies : request_application_code(a, r)
    \/ \E a \in AuthArgs : \E r \in TokenReplies : request_application_token(a, r)
    \/ set_code(ValidCode)
    \/ set_token(Token("tokenB", TokenLength))
    \/ set_expiration_date(Strftime(PlusYearOfDays(Today)))
    \/ self_authenticate
    \/ \E cl \in AuthCalls : Invoke(1, cl)
    \/ async_get_cache(1)
    \/ AfterMiss(1)
    \/ \E r \in (IF IsRegions(call[1]) THEN RegionReplies
                 ELSE EndpointReplies) : HttpReply(1, r)
    \/ CacheStore(1)
    \/ Finish(1)

AuthSpec == SessionInit /\ [][AuthNext]_vars

\* ================================================================== claims
\* A call ended the way the wrapper ends it: it was not cancelled.
Completed(c) == pc[c] = "done" /\ outcome[c].res # CancelledError

\* Two tasks whose calls of the same key overlapped, both starting while the
\* cache held no live entry for it.
ColdPair(c, d) == c # d /\ c \in peers[d] /\ cold[c] /\ cold[d]

\* C1: two concurrent calls with key K on a cache with no entry for K run the
\* fetch once and both get its result, at every interleaving of their awaits
\* (no task cancelled, no time passing).
C1_SingleFetch ==
    \A c \in Callers : \A d \in Callers :
        (ColdPair(c, d) /\ ticks = 0
            /\ outcome[c].res # CancelledError /\ outcome[d].res # CancelledError)
        => /\ ~(role[c] = "leader" /\ role[d] = "leader")
           /\ (pc[c] = "done" /\ pc[d] = "done" => outcome[c] = outcome[d])

\* C2: a call that finds a live entry holding a fetch's result returns that
\* result and does not fetch again.
C2_StoredResultReturned ==
    \A c \in Callers :
        (seen[c] = "live" /\ ~IsException(cached[c]))
        => /\ role[c] # "leader"
           /\ (role[c] = "hit" => outcome[c] = Returned(cached[c]))

Leading(k) == { c \in Callers : role[c] = "leader" /\ InFlight(c) /\ key[c] = k }

\* C4: at any moment at most one task per key is executing the fetch.
C4_OneLeaderPerKey ==
    \A c \in Callers :
        InFlight(c) /\ role[c] = "leader"
        => /\ Cardinality(Leading(key[c])) = 1
           /\ key[c] \in CACHE_LOCKS

\* Two keys are being fetched at once, each by one task, and the third task
\* waits on one of the gates.
C4_Witness ==
    \E c \in Callers : \E d \in Callers : \E f \in Callers :
        /\ pc[c] = "fetch" /\ pc[d] = "fetch" /\ key[c] # key[d]
        /\ pc[f] = "wait" /\ key[f] = key[c]

\* C5: a follower released from the gate finds the entry the leader stored
\* and returns or raises it; it never comes back with nothing (no time
\* passing).
C5_FollowerFindsEntry ==
    \A c \in Callers :
        (role[c] = "follower" /\ Completed(c) /\ ticks = 0)
        => /\ reseen[c] = "live"
           /\ outcome[c].res # NoneVal

\* A leader leaves the wrapper in this step, by return, raise or cancellation.
LeaderLeaves(c) == pc[c] \in {"fetch", "set", "stored"} /\ pc'[c] = "done"

\* C6: on every exit of the leader the gate of its key is removed and every
\* follower waiting on it is made ready; a waiting follower has a leader in
\* flight; and every waiting follower is eventually resumed.
C6_FollowersResumed ==
    /\ [](\A f \in Callers : pc[f] = "wait"
            => (key[f] \in CACHE_LOCKS /\ Leading(key[f]) # {}))
    /\ [][\A c \in Callers : LeaderLeaves(c)
            => /\ key[c] \notin CACHE_LOCKS'
               /\ \A f \in Callers :
                     (pc[f] = "wait" /\ key[f] = key[c]) => pc'[f] = "woken"]_vars
    /\ \A f \in Callers : (pc[f] = "wait") ~> (pc[f] # "wait")

\* Two followers were made ready by a leader that was cancelled.
C6_Witness ==
    \E l \in Callers : \E f \in Callers : \E g \in Callers :
        /\ f # g
        /\ role[l] = "leader" /\ outcome[l] = Raised(CancelledError)
        /\ pc[f] = "woken" /\ key[f] = key[l]
        /\ pc[g] = "woken" /\ key[g] = key[l]
        /\ key[l] \notin CACHE_LOCKS

\* A follower leaves its wait without having been released.
Abandons(f) == pc[f] = "wait" /\ pc'[f] = "done"

\* C7: a follower abandoning its wait changes neither the cache nor the gates
\* nor any other task; the leader that finishes stores its outcome, removes
\* the gate and readies the remaining followers; and a follower that finds
\* the entry gets the outcome of a leader of its key.
C7_AbandonLeavesLeader ==
    /\ [][\A f \in Callers : Abandons(f)
            => /\ CACHE' = CACHE
               /\ CACHE_LOCKS' = CACHE_LOCKS
               /\ \A d \in Callers \ {f} :
                     /\ pc'[d] = pc[d]
                     /\ response'[d] = response[d]
                     /\ outcome'[d] = outcome[d]]_vars
    /\ [][\A l \in Callers :
            (pc[l] = "stored" /\ pc'[l] = "done" /\ outcome'[l].res # CancelledError)
            => /\ key[l] \notin CACHE_LOCKS'
               /\ CACHE'[key[l]].val = response[l]
               /\ outcome'[l] = Deliver(response[l])
               /\ \A g \in Callers :
                     (pc[g] = "wait" /\ key[g] = key[l]) => pc'[g] = "woken"]_vars
    /\ [](\A g \in Callers :
            (role[g] = "follower" /\ Completed(g) /\ reseen[g] = "live")
            => \E l \in Callers :
                  /\ role[l] = "leader" /\ key[l] = key[g]
                  /\ outcome[g] = Deliver(response[l]))

\* One follower abandoned the wait; the leader completed, its outcome is in
\* the cache and the gate is gone; the other follower got that outcome.
C7_Witness ==
    \E l \in Callers : \E f \in Callers : \E g \in Callers :
        /\ role[l] = "leader" /\ Completed(l)
        /\ role[f] = "follower" /\ outcome[f] = Raised(CancelledError)
        /\ key[f] = key[l] /\ reseen[f] = ""
        /\ role[g] = "follower" /\ Completed(g) /\ key[g] = key[l]
        /\ outcome[g] = outcome[l]
        /\ CACHE[key[l]].val = response[l]
        /\ key[l] \notin CACHE_LOCKS

\* The positions in the table of the endpoints that declare a field.
Declaring(item) == { i \in 1..Len(ITEM_LOOKUP) : ItemIn(item, ITEM_LOOKUP[i][1]) }
Earliest(item) == ITEM_LOOKUP[CHOOSE i \in Declaring(item) :
                                 \A j \in Declaring(item) : i <= j][1]
Latest(item) == ITEM_LOOKUP[CHOOSE i \in Declaring(item) :
                               \A j \in Declaring(item) : i >= j][1]

\* A request_item call without an endpoint argument, on an authenticated
\* session, past the resolution.
AutoResolved(c) ==
    /\ call[c].op = "request_item" /\ call[c].endpoint = PyNone
    /\ pc[c] # "idle"
    /\ outcome[c] # Raised(ClientException(<< "Not authenticated" >>))

\* C8 as stated: a request_item call resolves a field declared under several
\* endpoints to the one declared last.
C8_LatestDeclaredWins ==
    \A c \in Callers :
        (AutoResolved(c) /\ Cardinality(Declaring(call[c].item)) >= 2)
        => /\ ENDPOINT_LOOKUP[call[c].item] = Latest(call[c].item)
           /\ resolved[c] = Latest(call[c].item)

\* C8: a field declared under several endpoints resolves to the one declared
\* first, in the index and in every request_item call that resolves it.
C8_EarliestDeclaredWins ==
    /\ \A item \in DOMAIN ENDPOINT_LOOKUP :
          Cardinality(Declaring(item)) >= 2 => ENDPOINT_LOOKUP[item] = Earliest(item)
    /\ \A c \in Callers :
          (AutoResolved(c) /\ Cardinality(Declaring(call[c].item)) >= 2)
          => resolved[c] = Earliest(call[c].item)

\* request_item("distanceUnit") sent its GET to battery-info, the first of the
\* three endpoints that declare the field.
C8_Witness ==
    \E c \in Callers :
        /\ AutoResolved(c) /\ call[c].item = "distanceUnit"
        /\ Declaring("distanceUnit") = {1, 2, 5}
        /\ resolved[c] = ENDPOINT_BATTERY_INFO
        /\ sent[c].url = region \o << ENDPOINT_BATTERY_INFO >>
        /\ pc[c] = "done" /\ outcome[c].how = "return"

\* C9: request_item with an explicit endpoint delegates to that endpoint when
\* the endpoint is in the table and declares the field, and otherwise raises
\* the client exception without sending a request.
C9_ExplicitEndpoint ==
    \A c \in Callers :
        (/\ call[c].op = "request_item" /\ call[c].endpoint # PyNone
         /\ pc[c] # "idle"
         /\ outcome[c] # Raised(ClientException(<< "Not authenticated" >>)))
        => IF call[c].endpoint \in Endpoints /\ ItemIn(call[c].item, call[c].endpoint)
           THEN /\ resolved[c] = call[c].endpoint
                /\ key[c] # << >>
                /\ (pc[c] = "done" => ItemResult(c)[2] # "MyPermobilClientException")
           ELSE /\ pc[c] = "done"
                /\ ItemResult(c) = << "raise", "MyPermobilClientException" >>
                /\ sent[c] = NoRequest

\* The field names that are entries of an endpoint's list.  The names nested
\* in the dict under the products endpoint are not entries.
Declared(item) == \E i \in 1..Len(ITEM_LOOKUP) : \E j \in 1..Len(ITEM_LOOKUP[i][2]) :
                     ITEM_LOOKUP[i][2][j] = StrItem(item)

\* C10: the index maps every declared field to an endpoint that declares it
\* and has no other key; request_item without an endpoint goes on to that
\* endpoint for a declared field and raises the client exception, with no
\* request sent, for any other name.
C10_ResolutionTotalSound ==
    /\ \A item \in SampleItems \cup DOMAIN ENDPOINT_LOOKUP :
          IF Declared(item)
          THEN /\ EndpointLookupGet(item) \in Endpoints
               /\ ItemIn(item, EndpointLookupGet(item))
          ELSE EndpointLookupGet(item) = PyNone
    /\ \A c \in Callers : AutoResolved(c)
          => IF Declared(call[c].item)
             THEN /\ ItemIn(call[c].item, resolved[c])
                  /\ key[c] # << >>
                  /\ (pc[c] = "done" => ItemResult(c)[2] # "MyPermobilClientException")
             ELSE /\ pc[c] = "done"
                  /\ outcome[c] = Raised(ClientException(<< "No endpoint for item: ", call[c].item >>))
                  /\ sent[c] = NoRequest

\* request_item("status") resolved to chair status and returned after its GET.
C10_Witness ==
    \E c \in Callers :
        /\ AutoResolved(c) /\ call[c].item = "status"
        /\ resolved[c] = ENDPOINT_VA_CHAIR_STATUS
        /\ sent[c].url = region \o << ENDPOINT_VA_CHAIR_STATUS >>
        /\ pc[c] = "done" /\ ItemResult(c)[1] = "return"

\* A step of a session operation or of anything else that touched the session.
SessionStep == << op, raised, fields, authenticated, aio_session >>'
                  # << op, raised, fields, authenticated, aio_session >>

Setters ==
    { "set_email", "set_region", "set_code", "set_token", "set_expiration_date",
      "set_application" }

\* C11: once authenticated, no step changes application, email, region, code,
\* token or expiration date, and a setter called then raises the client
\* exception that names the field.
C11_FieldsFrozen ==
    /\ [][authenticated => fields' = fields]_vars
    /\ [](authenticated /\ op.name \in Setters
            => raised \in { "Cannot change email after authentication",
                            "Cannot change region after authentication",
                            "Cannot change code after authentication",
                            "Cannot change token after authentication",
                            "Cannot change date after authentication",
                            "Cannot change app after authentication" })

\* set_token was called with another valid token on the authenticated session,
\* after a fetch, and the token is the one authenticated with.
C11_Witness ==
    /\ authenticated
    /\ op = Op("set_token", Token("tokenB", TokenLength))
    /\ raised = "Cannot change token after authentication"
    /\ token = Token("tokenA", TokenLength)
    /\ pc[1] = "done"

\* The five fields self_authenticate looks at all pass.
AllValid ==
    /\ ~Falsy(application)
    /\ validate_region(region) = ""
    /\ validate_email(email) = ""
    /\ validate_token(token) = ""
    /\ validate_expiration_date(expiration_date) = ""

\* C12: authenticated goes from false to true only in a self_authenticate
\* call made with application, region, email, token and expiration date all
\* valid; a self_authenticate call made otherwise, or on an authenticated
\* session, raises and changes neither the flag nor a field; so an
\* authenticated session has all five valid.
C12_AuthenticateOnlyWhenValid ==
    /\ [][(~authenticated /\ authenticated')
            => /\ op'.name = "self_authenticate"
               /\ AllValid
               /\ raised' = ""
               /\ fields' = fields]_vars
    /\ [][(op'.name = "self_authenticate" /\ SessionStep
            /\ (authenticated \/ ~AllValid))
            => /\ raised' # ""
               /\ authenticated' = authenticated
               /\ fields' = fields]_vars
    /\ [][(op'.name = "self_authenticate" /\ SessionStep
            /\ ~authenticated /\ AllValid)
            => authenticated' /\ raised' = ""]_vars
    /\ [](authenticated => AllValid)

\* A session constructed with nothing but the application was given every
\* field by its setters and then authenticated.
C12_Witness ==
    /\ authenticated
    /\ op.name = "self_authenticate" /\ raised = ""
    /\ email = << "x", "@", "y", ".", "z" >>
    /\ region = << "h", "t", "t", "p", ":", "/", "/", "u", "s" >>
    /\ token = Token("tokenB", TokenLength)
    /\ expiration_date = << "2", "0", "3", "0", "-", "1", "2", "-", "3", "1" >>

\* What the validator of a setter's field says of an argument ("" when it
\* passes); for the application, the test self_authenticate makes of it.
ArgError(name, v) ==
    CASE name = "set_application" -> IF Falsy(v) THEN "Missing application name" ELSE ""
      [] name = "set_email" -> validate_email(v)
      [] name = "set_region" -> validate_region(v)
      [] name = "set_code" -> validate_code(v)
      [] name = "set_token" -> validate_token(v)
      [] name = "set_expiration_date" -> validate_expiration_date(v)

\* The place in fields of the field a setter assigns.
FieldIndex(name) ==
    CASE name = "set_application" -> 1
      [] name = "set_email" -> 2
      [] name = "set_region" -> 3
      [] name = "set_code" -> 4
      [] name = "set_token" -> 5
      [] name = "set_expiration_date" -> 6

\* C13: a setter called on an authenticated session or with an argument its
\* validator rejects raises and leaves the fields and the flag as they were;
\* called with a valid argument on an unauthenticated session it assigns its
\* field and no other; and a field changes in no other step.
C13_SettersValidate ==
    /\ [][\A name \in Setters :
            (op'.name = name /\ SessionStep)
            => IF authenticated \/ ArgError(name, op'.arg) # ""
               THEN /\ raised' # ""
                    /\ fields' = fields
                    /\ authenticated' = authenticated
               ELSE /\ raised' = ""
                    /\ fields'[FieldIndex(name)] = op'.arg
                    /\ \A j \in 1..6 \ {FieldIndex(name)} : fields'[j] = fields[j]
                    /\ authenticated' = authenticated]_vars
    /\ [][\A name \in Setters :
            fields'[FieldIndex(name)] # fields[FieldIndex(name)]
            => /\ op'.name = name
               /\ ~authenticated
               /\ ArgError(name, op'.arg) = ""]_vars

\* C14: no step makes authenticated false again; deauthenticate on an
\* unauthenticated session raises "Not authenticated" and changes nothing, and
\* on an authenticated one it raises nothing and changes nothing.
C14_AuthenticatedIsTerminal ==
    /\ [][authenticated => authenticated']_vars
    /\ [][(op'.name = "deauthenticate" /\ SessionStep)
            => /\ raised' = (IF authenticated THEN "" ELSE "Not authenticated")
               /\ authenticated' = authenticated
               /\ fields' = fields
               /\ aio_session' = aio_session
               /\ shared' = shared]_vars

\* The session is still authenticated after close_session, a fetch and a
\* deauthenticate that raised nothing.
C14_Witness ==
    /\ authenticated
    /\ op.name = "deauthenticate" /\ raised = ""
    /\ aio_session = PyNone
    /\ pc[1] = "done" /\ role[1] = "leader"

\* A call of request_item or request_endpoint, neither given headers.
NeedsHeaders(c) == call[c].op \in {"request_item", "request_endpoint"}

NotAuthenticated == ClientException(<< "Not authenticated" >>)

\* C15: on an unauthenticated session every request_item and request_endpoint
\* call ends with the "Not authenticated" client exception and no GET sent;
\* every GET such a call sends is sent authenticated and carries the Bearer
\* token; the GET of request_regions carries no Authorization header (no task
\* cancelled itself, no time passing).
C15_HeadersNeedAuthentication ==
    \A c \in Callers :
        /\ (NeedsHeaders(c) /\ ~authenticated /\ Completed(c) /\ ticks = 0)
           => (outcome[c] = Raised(NotAuthenticated) /\ sent[c] = NoRequest)
        /\ (NeedsHeaders(c) /\ sent[c] # NoRequest)
           => (authenticated /\ sent[c].auth = << "Bearer ", token.id >>)
        /\ (IsRegions(call[c]) /\ sent[c] # NoRequest)
           => sent[c].auth = << >>

\* The two filters a call of request_regions runs with.
Variant(cl) ==
    << ParamValue(cl, 1, "include_icons"), ParamValue(cl, 2, "include_internal") >>

\* C16: both filters of request_regions are in the cache key: calls with
\* different filters have different keys, what a call gets is always the result
\* of request_regions under its own filters, and a call that sent no request
\* found an entry under its own key.
C16_FiltersInKey ==
    \A c \in Callers :
        /\ \A d \in Callers :
              (IsRegions(call[c]) /\ IsRegions(call[d])
                 /\ Variant(call[c]) # Variant(call[d]))
              => key[c] # key[d]
        /\ (IsRegions(call[c]) /\ Completed(c))
           => /\ \E r \in RegionReplies :
                    outcome[c] = Deliver(request_regions(r, Variant(call[c])[1],
                                                         Variant(call[c])[2]))
              /\ sent[c] = NoRequest => key[c] \in DOMAIN CACHE

\* Two finished calls with different filters, the second started when the
\* result of the first was cached: each sent its own request and got its own
\* dict.
C16_Witness ==
    /\ call[1] = RegionsCall(<< >>, << >>)
    /\ call[2] = RegionNamesCall("True")
    /\ Completed(1) /\ Completed(2)
    /\ 1 \notin peers[2] /\ cold[2] /\ role[2] = "leader"
    /\ sent[1] # NoRequest /\ sent[2] # NoRequest
    /\ outcome[1].res.t = "val" /\ outcome[2].res.t = "val"
    /\ outcome[1].res # outcome[2].res
    /\ key[1] \in DOMAIN CACHE /\ key[2] \in DOMAIN CACHE

\* C17: at the step in which a caller becomes the leader for its key (creates
\* the gate and starts the wrapped function), the cache holds no entry for the
\* key whose ttl has not run out.
C17_LeaderStartsOnEmptyKey ==
    [][\A c \in Callers :
          (role[c] # "leader" /\ role'[c] = "leader")
          => EntryState(key[c]) # "live"]_vars

\* C18: the gate table holds the gate of key K exactly while one task is the
\* leader for K, from the gate's creation to the leader's finally block (so
\* the del in the finally block finds the key), one leader per gate; with no
\* call in flight the table is empty.
C18_GateTable ==
    /\ CACHE_LOCKS = { key[c] : c \in { d \in Callers : role[d] = "leader" /\ InFlight(d) } }
    /\ \A k \in CACHE_LOCKS : Cardinality(Leading(k)) = 1
    /\ (\A c \in Callers : ~InFlight(c)) => CACHE_LOCKS = {}

\* All three tasks are through: one leader finished, one leader was cancelled,
\* a follower was released, and the table is empty again.
C18_Witness ==
    /\ CACHE_LOCKS = {}
    /\ \A c \in Callers : pc[c] = "done"
    /\ \E c \in Callers : \E d \in Callers : \E f \in Callers :
          /\ role[c] = "leader" /\ Completed(c)
          /\ role[d] = "leader" /\ outcome[d] = Raised(CancelledError) /\ key[d] # key[c]
          /\ role[f] = "follower" /\ Completed(f)

\* What a reply is to become: the parsed body under a 2xx status, else the API
\* exception with the status and the body's error field, or the raw text when
\* the body has none.
HasErrorField(r) == r.isjson /\ \E p \in r.json : p[1] = "error"

StatusOutcome(r) ==
    IF r.status >= 200 /\ r.status < 300 THEN Val(r.json)
    ELSE APIException(<< "Permobil API ", ToString(r.status), ": ",
                         IF HasErrorField(r) THEN DictGet(r.json, "error") ELSE r.text >>)

\* The replies with a status and, under a 2xx status, a body to parse.
Answered(r) == r.status # 0 /\ (r.status >= 200 /\ r.status < 300 => r.isjson)

\* C19: request_endpoint sends one GET to region + endpoint; a reply with a
\* 2xx status makes it return the parsed body, a reply with any other status
\* makes it raise the API exception "Permobil API <status>: <msg>" with msg
\* the body's error field when it has one, else the raw text.
C19_StatusHandling ==
    [][\A c \in Callers : \A r \in StatusReplies :
          /\ (call[c].op = "request_endpoint" /\ pc[c] = "got" /\ pc'[c] = "fetch")
             => sent'[c].url = region \o << call[c].endpoint >>
          /\ (call[c].op = "request_endpoint" /\ Answered(r) /\ HttpReply(c, r))
             => response'[c] = StatusOutcome(r)]_vars

\* The same for the replies whose body is JSON.
JsonStatusHandling ==
    [][\A c \in Callers : \A r \in StatusReplies :
          (call[c].op = "request_endpoint" /\ Answered(r) /\ r.isjson /\ HttpReply(c, r))
             => response'[c] = StatusOutcome(r)]_vars

\* C20: a request_item or request_endpoint call made without headers on an
\* authenticated session (authed: the flag at the moment of the call) never
\* ends with the "Not authenticated" client exception, whatever was called
\* before.
C20_AuthenticatedCallsPass ==
    \A c \in Callers :
        (NeedsHeaders(c) /\ authed[c] /\ pc[c] = "done")
        => outcome[c] # Raised(NotAuthenticated)

\* The same for request_item alone, whose key holds the headers.
ItemCallsPass ==
    \A c \in Callers :
        (call[c].op = "request_item" /\ authed[c] /\ pc[c] = "done")
        => outcome[c] # Raised(NotAuthenticated)

\* A call that reached the wrapper.
Made(c) == call[c].op \in {"request_endpoint", "request_regions"} /\ pc[c] # "idle"

\* Task c got from the cache what the fetch of task d produced.
ReceivedFrom(c, d) ==
    /\ c # d
    /\ Completed(c) /\ role[c] # "leader" /\ outcome[c].res # NoneVal
    /\ role[d] = "leader" /\ pc[d] \in {"stored", "done"}
    /\ key[c] = key[d]
    /\ outcome[c] = Deliver(response[d])

\* C21: two calls of a cacheable operation have the same key (one cache entry,
\* one gate) exactly when their clients have the same str(), that is the same
\* application, email, region, code, token and expiration date, and their
\* arguments the same form; and no call gets what the fetch of a call on a
\* client with another str() produced.
C21_KeyedByClientStr ==
    \A c \in Callers : \A d \in Callers :
        (Made(c) /\ Made(d))
        => /\ key[c] = key[d] <=> (client[c].str = client[d].str /\ call[c] = call[d])
           /\ ReceivedFrom(c, d) => client[c].str = client[d].str

\* The key names the client by its address: two calls have the same key
\* exactly when their client objects lie at the same address and their
\* arguments have the same form.
KeyedByAddress ==
    \A c \in Callers : \A d \in Callers :
        (Made(c) /\ Made(d))
        => (key[c] = key[d] <=> (client[c].id = client[d].id /\ call[c] = call[d]))

\* A step of request_application_code or request_application_token, or a
\* step of a request_regions, request_endpoint or request_item call.
RequestStep ==
    \/ \E a \in AuthArgs : \E r \in CodeReplies : request_application_code(a, r)
    \/ \E a \in AuthArgs : \E r \in TokenReplies : request_application_token(a, r)
    \/ locals' # locals

\* C22: no step of a request operation changes application, email, region,
\* code, token, expiration date or the authenticated flag, whether it returns
\* or raises; a request_application_token that returned has returned the
\* token of the reply and a date, and left the session unauthenticated; the
\* flag is set by self_authenticate only.
C22_RequestsKeepSession ==
    [][/\ RequestStep => UNCHANGED << fields, authenticated >>
       /\ \A a \in AuthArgs : \A r \in TokenReplies :
             (request_application_token(a, r) /\ raised' = "")
             => /\ op'.arg = << JsonToken(r), OrSelf(a.expiration_date,
                                                      Strftime(PlusYearOfDays(Today))) >>
                /\ ~authenticated'
       /\ (authenticated' /\ ~authenticated) => op'.name = "self_authenticate"]_vars

\* A session constructed with nothing but the application has asked for the
\* token with every argument given and got it: the token and the date were
\* returned, the session holds neither and is unauthenticated.
C22_Witness ==
    /\ op.name = "request_application_token" /\ raised = ""
    /\ op.arg[1] = Token("tokenB", TokenLength)
    /\ token = NoToken /\ expiration_date = NONE
    /\ ~authenticated

\* The same session made authenticated with what the server returned: set_code,
\* request_application_token, set_token, set_expiration_date, self_authenticate.
AuthenticatedWithReturnedToken ==
    /\ authenticated
    /\ token = Token("tokenB", TokenLength)
    /\ expiration_date = Strftime(PlusYearOfDays(Today))
    /\ code = ValidCode

====
